---- MODULE Spec2Model ----
(***************************************************************************)
(* Flappy Bird with Open Game Protocol integration.                        *)
(*                                                                         *)
(* The repository holds two variants of the same game:                     *)
(*   "simple"  src/game.js            (jump, saveScore at game end only)   *)
(*   "rich"    src/unnamed/part_001   (flap, rotation, wing animation,     *)
(*                                     addPoints on every pass-through)    *)
(* The variant is chosen in Init and never changes.                        *)
(*                                                                         *)
(* Numbers.  Every length and speed of CONFIG is a multiple of             *)
(* gravity = 0.05, so lengths are kept in fixed point, Unit = 20 units per *)
(* pixel (1 unit = 0.05).  Angles are kept in micro-radians and the two    *)
(* fractional factors of updateBirdRotation round towards minus infinity.  *)
(*                                                                         *)
(* Host.  JavaScript runs one handler at a time, so every action is one    *)
(* whole handler.  The browser keeps a map of animation frame callbacks;   *)
(* all callbacks of this program are the same closure () => gameLoop(), so *)
(* the map is its size rafPending, and a handle is the position of its     *)
(* callback in registration order (1 = oldest).  A handle whose callback   *)
(* has run or was cancelled is StaleHandle.  A host frame runs the         *)
(* callbacks that were registered when the frame began, oldest first;      *)
(* frameLeft is how many of them are still to run, and no input event is   *)
(* delivered while frameLeft > 0.                                          *)
(***************************************************************************)
EXTENDS Integers, Sequences, FiniteSets, TLC

VARIABLES variant,        \* "simple" or "rich"
          gameState,      \* the gameState singleton
          sdk,            \* OGPManager: "pending", "ready", "rejected", "null"
          rafPending,     \* host: number of registered frame callbacks
          frameLeft,      \* host: callbacks of the running frame still to run
          frameUpdates,   \* update() executions in the current host frame
          tick,           \* update() executions since the last startGame
          threw,          \* the last handler ended with an uncaught exception
          saveLog,        \* arguments of the calls ogpManager.saveScore(..)
          savePointsLog,  \* arguments of the calls ogp.savePoints(..)
          addPointsCalls, \* number of calls ogp.ui.addPoints(1)
          addPointsInvoked, \* number of calls ogpManager.addPoints(1)
          saveOutcome,    \* per call of ogp.savePoints: state of its promise
          renders,        \* render() executions since the last startGame
          rendered,       \* what the last render() drew
          flapsUsed,      \* flap inputs delivered so far
          startsUsed      \* startGame clicks delivered so far

vars == <<variant, gameState, sdk, rafPending, frameLeft, frameUpdates, tick,
          threw, saveLog, savePointsLog, addPointsCalls, addPointsInvoked,
          saveOutcome, renders, rendered, flapsUsed, startsUsed>>

-----------------------------------------------------------------------------
(* Bounds of the model *)

\* flap inputs delivered in one execution
MaxFlaps == 2

\* startGame clicks delivered in one execution
MaxStarts == 2

\* ticks of a run (update() executions since startGame) at which the player
\* may flap while the game runs
FlapTicks == {1, 50, 99, 100, 150}

\* values of Math.random(), in thousandths
RandomSamples == {0, 500, 999}

-----------------------------------------------------------------------------
(* Configuration *)

\* fixed-point units per pixel: 1 unit = CONFIG.gravity = 0.05
Unit == 20

\* micro-radians per radian
MicroRad == 1000000

CONFIG ==
    [ gravity                |-> 1,             \* 0.05
      flapStrength           |-> 3 * Unit,      \* jumpStrength in game.js
      maxVelocity            |-> 5 * Unit,
      birdInitialY           |-> 300 * Unit,
      birdWidth              |-> 30 * Unit,
      birdHeight             |-> 30 * Unit,
      birdX                  |-> 50 * Unit,
      obstacleWidth          |-> 50 * Unit,
      obstacleSpeed          |-> 2 * Unit,
      gapSize                |-> 150 * Unit,
      canvasWidth            |-> 400 * Unit,
      canvasHeight           |-> 600 * Unit,
      animationFrameInterval |-> 10,
      rotationFriction       |-> 4,             \* tenths: 0.4
      rotationSensitivity    |-> 3,             \* tenths: 0.3
      maxRotation            |-> 785398 ]       \* Math.PI / 4 in micro-radians

Min(a, b) == IF a < b THEN a ELSE b
Max(a, b) == IF a > b THEN a ELSE b

\* animationFrameId values that are not a pending callback
NullHandle  == 0
StaleHandle == 0 - 1

-----------------------------------------------------------------------------
(* The world a handler works on: the game state together with the host and *)
(* the rewards collaborator, so that the functions of the source can be    *)
(* applied one after another.                                              *)

World ==
    [ g         |-> gameState,
      pending   |-> rafPending,
      left      |-> frameLeft,
      updates   |-> frameUpdates,
      tick      |-> tick,
      threw     |-> FALSE,
      saves     |-> saveLog,
      sdkSaves  |-> savePointsLog,
      addPoints |-> addPointsCalls,
      invoked   |-> addPointsInvoked,
      outcomes  |-> saveOutcome,
      renders   |-> renders,
      rendered  |-> rendered ]

\* window.requestAnimationFrame: registers a callback, returns its handle
requestAnimationFrame(w) ==
    [w EXCEPT !.pending = w.pending + 1,
              !.g.animationFrameId = w.pending + 1]

\* window.cancelAnimationFrame(h): removes the callback from the map, if it
\* is still there; a callback of the running frame that is removed is skipped
cancelAnimationFrame(w, h) ==
    IF h >= 1 /\ h <= w.pending
    THEN [w EXCEPT !.pending = w.pending - 1,
                   !.left = IF h <= w.left THEN w.left - 1 ELSE w.left]
    ELSE w

\* OGPManager.addPoints (rich variant): this.ogp is null when the SDK
\* constructor threw, and then this.ogp.ui is a TypeError
addPoints(w, points) ==
    IF sdk = "null"
    THEN [w EXCEPT !.invoked = w.invoked + 1, !.threw = TRUE]
    ELSE [w EXCEPT !.invoked = w.invoked + 1, !.addPoints = w.addPoints + 1]

\* OGPManager.saveScore; the promise of ogp.savePoints is left pending and
\* nobody waits for it
saveScore(w, points) ==
    LET w1 == [w EXCEPT !.saves = Append(w.saves, points)]
    IN  IF sdk # "ready" \/ points <= 0
        THEN w1
        ELSE [w1 EXCEPT !.sdkSaves = Append(w1.sdkSaves, points),
                        !.outcomes = Append(w1.outcomes, "pending")]

\* FlappyBirdGame.resetObstacle; r is Math.random() in thousandths
resetObstacle_noMargin(w, r) ==
    [w EXCEPT !.g.obstacleX = CONFIG.canvasWidth,
              !.g.obstacleHeight =
                  (r * (CONFIG.canvasHeight - w.g.gap)) \div 1000 + 50 * Unit]

resetObstacle(w, r) ==
    [w EXCEPT !.g.obstacleX = CONFIG.canvasWidth,
              !.g.obstacleHeight =
                  (r * (CONFIG.canvasHeight - w.g.gap - 100 * Unit)) \div 1000
                  + 50 * Unit]

\* FlappyBirdGame.endGame
endGame_alwaysSaves(w) ==
    LET w1 == [w EXCEPT !.g.gameRunning = FALSE]
        w2 == IF w1.g.animationFrameId # NullHandle
              THEN [cancelAnimationFrame(w1, w1.g.animationFrameId)
                        EXCEPT !.g.animationFrameId = NullHandle]
              ELSE w1
    IN  saveScore(w2, w2.g.score)

endGame(w) ==
    LET w1 == [w EXCEPT !.g.gameRunning = FALSE]
        w2 == IF w1.g.animationFrameId # NullHandle
              THEN [cancelAnimationFrame(w1, w1.g.animationFrameId)
                        EXCEPT !.g.animationFrameId = NullHandle]
              ELSE w1
    IN  IF w2.g.score > 0 THEN saveScore(w2, w2.g.score) ELSE w2

\* FlappyBirdGame.checkCollisions
checkCollisions_noGround(w) ==
    IF w.g.birdY < 0
    THEN endGame(w)
    ELSE LET birdRight     == CONFIG.birdX + CONFIG.birdWidth
             birdBottom    == w.g.birdY + CONFIG.birdHeight
             obstacleRight == w.g.obstacleX + CONFIG.obstacleWidth
         IN  IF /\ birdRight > w.g.obstacleX
                /\ CONFIG.birdX < obstacleRight
                /\ \/ w.g.birdY < w.g.obstacleHeight
                   \/ birdBottom > w.g.obstacleHeight + w.g.gap
             THEN endGame(w)
             ELSE w

checkCollisions(w) ==
    IF w.g.birdY < 0 \/ w.g.birdY + CONFIG.birdHeight > CONFIG.canvasHeight
    THEN endGame(w)
    ELSE LET birdRight     == CONFIG.birdX + CONFIG.birdWidth
             birdBottom    == w.g.birdY + CONFIG.birdHeight
             obstacleRight == w.g.obstacleX + CONFIG.obstacleWidth
         IN  IF /\ birdRight > w.g.obstacleX
                /\ CONFIG.birdX < obstacleRight
                /\ \/ w.g.birdY < w.g.obstacleHeight
                   \/ birdBottom > w.g.obstacleHeight + w.g.gap
             THEN endGame(w)
             ELSE w

\* FlappyBirdGame.updateBirdPosition (game.js: first two lines of update)
updateBirdPosition_noClamp(w) ==
    LET v == w.g.birdVelocity + CONFIG.gravity
    IN  [w EXCEPT !.g.birdVelocity = v, !.g.birdY = w.g.birdY + v]

updateBirdPosition_oldVelocity(w) ==
    LET v == Min(w.g.birdVelocity + CONFIG.gravity, CONFIG.maxVelocity)
    IN  [w EXCEPT !.g.birdVelocity = v, !.g.birdY = w.g.birdY + w.g.birdVelocity]

updateBirdPosition(w) ==
    LET v == Min(w.g.birdVelocity + CONFIG.gravity, CONFIG.maxVelocity)
    IN  [w EXCEPT !.g.birdVelocity = v, !.g.birdY = w.g.birdY + v]

\* FlappyBirdGame.updateBirdRotation (rich variant)
updateBirdRotation(w) ==
    LET targetRotation ==
            Max(0 - CONFIG.maxRotation,
                Min(CONFIG.maxRotation,
                    (w.g.birdVelocity * CONFIG.rotationSensitivity * MicroRad)
                        \div (10 * Unit)))
        rotationDifference == targetRotation - w.g.birdRotation
        sprung == w.g.birdRotationVelocity + rotationDifference \div 10
        damped == (sprung * CONFIG.rotationFriction) \div 10
    IN  [w EXCEPT !.g.birdRotationVelocity = damped,
                  !.g.birdRotation = w.g.birdRotation + damped]

\* FlappyBirdGame.updateObstaclePosition
updateObstaclePosition(w) ==
    [w EXCEPT !.g.obstacleX = w.g.obstacleX - CONFIG.obstacleSpeed]

\* FlappyBirdGame.updateObstaclePassed (game.js: the block in update)
updateObstaclePassed_noReset(w, r) ==
    IF w.g.obstacleX < 0 - CONFIG.obstacleWidth
    THEN LET w2 == [w EXCEPT !.g.score = w.g.score + 1]
         IN  IF variant = "rich" THEN addPoints(w2, 1) ELSE w2
    ELSE w

updateObstaclePassed_noSignal(w, r) ==
    IF w.g.obstacleX < 0 - CONFIG.obstacleWidth
    THEN LET w1 == resetObstacle(w, r)
         IN  [w1 EXCEPT !.g.score = w1.g.score + 1]
    ELSE w

updateObstaclePassed_atEdge(w, r) ==
    IF w.g.obstacleX <= 0 - CONFIG.obstacleWidth
    THEN LET w1 == resetObstacle(w, r)
             w2 == [w1 EXCEPT !.g.score = w1.g.score + 1]
         IN  IF variant = "rich" THEN addPoints(w2, 1) ELSE w2
    ELSE w

updateObstaclePassed(w, r) ==
    IF w.g.obstacleX < 0 - CONFIG.obstacleWidth
    THEN LET w1 == resetObstacle(w, r)
             w2 == [w1 EXCEPT !.g.score = w1.g.score + 1]
         IN  IF variant = "rich" THEN addPoints(w2, 1) ELSE w2
    ELSE w

\* FlappyBirdGame.updateAnimationFrame (rich variant)
updateAnimationFrame(w) ==
    [w EXCEPT !.g.animationFrame =
                  IF w.g.birdRotation > 0 THEN 0
                  ELSE IF w.g.animationFrame = 0 THEN 1 ELSE 0,
              !.g.animationCounter = 0]

\* FlappyBirdGame.updateAnimation (rich variant)
updateAnimation(w) ==
    LET w1 == [w EXCEPT !.g.animationCounter = w.g.animationCounter + 1]
    IN  IF w1.g.animationCounter >= CONFIG.animationFrameInterval
        THEN updateAnimationFrame(w1)
        ELSE w1

\* FlappyBirdGame.update; an exception thrown by addPoints leaves update
\* at once, so what follows updateObstaclePassed is skipped
update(w, r) ==
    LET w0 == [w EXCEPT !.tick = w.tick + 1, !.updates = w.updates + 1]
    IN  IF variant = "rich"
        THEN LET w1 == updateBirdPosition(w0)
                 w2 == updateBirdRotation(w1)
                 w3 == updateObstaclePosition(w2)
                 w4 == updateObstaclePassed(w3, r)
             IN  IF w4.threw THEN w4
                 ELSE checkCollisions(updateAnimation(w4))
        ELSE LET w1 == updateBirdPosition(w0)
                 w3 == updateObstaclePosition(w1)
                 w4 == updateObstaclePassed(w3, r)
             IN  checkCollisions(w4)

\* FlappyBirdGame.render (drawBird, drawObstacle; game.js also draws the
\* score): reads the game state and changes none of it
render(w) ==
    [w EXCEPT !.renders = w.renders + 1,
              !.rendered = << w.g.birdY, w.g.birdRotation, w.g.animationFrame,
                              w.g.obstacleX, w.g.obstacleHeight, w.g.score >>]

\* FlappyBirdGame.gameLoop
gameLoop_noGuard(w, r) ==
    LET w1 == update(w, r)
    IN  IF w1.threw THEN w1 ELSE requestAnimationFrame(render(w1))

gameLoop(w, r) ==
    IF ~w.g.gameRunning
    THEN w
    ELSE LET w1 == update(w, r)
         IN  IF w1.threw THEN w1 ELSE requestAnimationFrame(render(w1))

\* FlappyBirdGame.startGame; r1 is drawn by resetObstacle, r2 by the step
startGame_keepsVelocity(w, r1, r2) ==
    LET w1 == [w EXCEPT !.g.birdY = CONFIG.birdInitialY,
                        !.g.birdRotation = 0,
                        !.g.birdRotationVelocity = 0,
                        !.g.obstacleX = CONFIG.canvasWidth,
                        !.g.score = 0,
                        !.g.gameRunning = TRUE,
                        !.g.animationFrame = 0,
                        !.g.animationCounter = 0,
                        !.tick = 0,
                        !.renders = 0]
    IN  gameLoop(resetObstacle(w1, r1), r2)

startGame(w, r1, r2) ==
    LET w1 == [w EXCEPT !.g.birdY = CONFIG.birdInitialY,
                        !.g.birdVelocity = 0,
                        !.g.birdRotation = 0,
                        !.g.birdRotationVelocity = 0,
                        !.g.obstacleX = CONFIG.canvasWidth,
                        !.g.score = 0,
                        !.g.gameRunning = TRUE,
                        !.g.animationFrame = 0,
                        !.g.animationCounter = 0,
                        !.tick = 0,
                        !.renders = 0]
    IN  gameLoop(resetObstacle(w1, r1), r2)

\* FlappyBirdGame.flap (game.js: jump, without the wing frame)
flap_noGuard(w) ==
    LET w1 == [w EXCEPT !.g.birdVelocity = 0 - CONFIG.flapStrength]
    IN  IF variant = "rich" THEN updateAnimationFrame(w1) ELSE w1

flap_addsImpulse(w) ==
    IF w.g.gameRunning
    THEN LET w1 == [w EXCEPT !.g.birdVelocity =
                                 w.g.birdVelocity - CONFIG.flapStrength]
         IN  IF variant = "rich" THEN updateAnimationFrame(w1) ELSE w1
    ELSE w

flap(w) ==
    IF w.g.gameRunning
    THEN LET w1 == [w EXCEPT !.g.birdVelocity = 0 - CONFIG.flapStrength]
         IN  IF variant = "rich" THEN updateAnimationFrame(w1) ELSE w1
    ELSE w

-----------------------------------------------------------------------------
(* The state machine *)

\* what a handler leaves behind
Commit(w) ==
    /\ gameState' = w.g
    /\ rafPending' = w.pending
    /\ frameLeft' = w.left
    /\ frameUpdates' = w.updates
    /\ tick' = w.tick
    /\ threw' = w.threw
    /\ saveLog' = w.saves
    /\ savePointsLog' = w.sdkSaves
    /\ addPointsCalls' = w.addPoints
    /\ addPointsInvoked' = w.invoked
    /\ saveOutcome' = w.outcomes
    /\ renders' = w.renders
    /\ rendered' = w.rendered

\* the gameState literal, then new OGPManager() and new FlappyBirdGame(..):
\* the constructor draws a first gap with resetObstacle; the SDK constructor
\* either threw (ogp is null) or its init promise is pending
Init ==
    /\ variant \in {"simple", "rich"}
    /\ sdk \in {"pending", "null"}
    /\ \E r \in RandomSamples :
         gameState =
           [ birdY                |-> CONFIG.birdInitialY,
             birdVelocity         |-> 0,
             birdRotation         |-> 0,
             birdRotationVelocity |-> 0,
             obstacleX            |-> CONFIG.canvasWidth,
             gap                  |-> CONFIG.gapSize,
             obstacleHeight       |->
                 (r * (CONFIG.canvasHeight - CONFIG.gapSize - 100 * Unit))
                     \div 1000 + 50 * Unit,
             score                |-> 0,
             gameRunning          |-> FALSE,
             animationFrameId     |-> NullHandle,
             animationFrame       |-> 0,
             animationCounter     |-> 0 ]
    /\ rafPending = 0
    /\ frameLeft = 0
    /\ frameUpdates = 0
    /\ tick = 0
    /\ threw = FALSE
    /\ saveLog = <<>>
    /\ savePointsLog = <<>>
    /\ addPointsCalls = 0
    /\ addPointsInvoked = 0
    /\ saveOutcome = <<>>
    /\ renders = 0
    /\ rendered = <<>>
    /\ flapsUsed = 0
    /\ startsUsed = 0

\* click on startButton or playAgainButton
StartGame ==
    /\ frameLeft = 0
    /\ startsUsed < MaxStarts
    /\ startsUsed' = startsUsed + 1
    /\ \E r1 \in RandomSamples, r2 \in RandomSamples :
         LET w == startGame(World, r1, r2)
         IN  Commit([w EXCEPT !.updates = frameUpdates])
    /\ UNCHANGED <<variant, sdk, flapsUsed>>

\* click, touchstart or space key
Flap ==
    /\ frameLeft = 0
    /\ flapsUsed < MaxFlaps
    /\ gameState.gameRunning => tick \in FlapTicks
    /\ flapsUsed' = flapsUsed + 1
    /\ Commit(flap(World))
    /\ UNCHANGED <<variant, sdk, startsUsed>>

\* the host runs the next frame callback: the oldest one of the running
\* frame, or of a new frame that takes every callback registered so far
AnimationFrame ==
    /\ rafPending > 0
    /\ LET newFrame == frameLeft = 0
           w0 == [World EXCEPT
                    !.pending = rafPending - 1,
                    !.left = (IF newFrame THEN rafPending ELSE frameLeft) - 1,
                    !.updates = IF newFrame THEN 0 ELSE frameUpdates,
                    !.g.animationFrameId =
                        IF gameState.animationFrameId = 1 THEN StaleHandle
                        ELSE IF gameState.animationFrameId > 1
                             THEN gameState.animationFrameId - 1
                             ELSE gameState.animationFrameId]
       IN  \E r \in RandomSamples : Commit(gameLoop(w0, r))
    /\ UNCHANGED <<variant, sdk, flapsUsed, startsUsed>>

\* the promise of ogp.init(..) resolves: isInitialized = true
SdkInitResolved ==
    /\ frameLeft = 0
    /\ sdk = "pending"
    /\ sdk' = "ready"
    /\ UNCHANGED <<variant, gameState, rafPending, frameLeft, frameUpdates,
                   tick, threw, saveLog, savePointsLog, addPointsCalls,
                   addPointsInvoked, saveOutcome, renders, rendered,
                   flapsUsed, startsUsed>>

\* the promise of ogp.init(..) rejects: handleInitError
SdkInitRejected ==
    /\ frameLeft = 0
    /\ sdk = "pending"
    /\ sdk' = "rejected"
    /\ UNCHANGED <<variant, gameState, rafPending, frameLeft, frameUpdates,
                   tick, threw, saveLog, savePointsLog, addPointsCalls,
                   addPointsInvoked, saveOutcome, renders, rendered,
                   flapsUsed, startsUsed>>

\* a promise of ogp.savePoints(..) resolves: saveScore's then logs the
\* response (in game.js the SDK's SavePointsSuccess event then refreshes
\* gameState.ogpPoints, the displayed total, which the model does not carry)
SavePointsResolved ==
    /\ frameLeft = 0
    /\ \E i \in DOMAIN saveOutcome :
         /\ saveOutcome[i] = "pending"
         /\ saveOutcome' = [saveOutcome EXCEPT ![i] = "resolved"]
    /\ UNCHANGED <<variant, sdk, gameState, rafPending, frameLeft,
                   frameUpdates, tick, threw, saveLog, savePointsLog,
                   addPointsCalls, addPointsInvoked, renders, rendered,
                   flapsUsed, startsUsed>>

\* a promise of ogp.savePoints(..) rejects: saveScore's catch logs the error
\* and rejects the promise it returned, which endGame dropped
SavePointsRejected_retries ==
    /\ frameLeft = 0
    /\ \E i \in DOMAIN saveOutcome :
         /\ saveOutcome[i] = "pending"
         /\ saveOutcome' =
                Append([saveOutcome EXCEPT ![i] = "rejected"], "pending")
         /\ savePointsLog' = Append(savePointsLog, savePointsLog[i])
    /\ UNCHANGED <<variant, sdk, gameState, rafPending, frameLeft,
                   frameUpdates, tick, threw, saveLog,
                   addPointsCalls, addPointsInvoked, renders, rendered,
                   flapsUsed, startsUsed>>

SavePointsRejected ==
    /\ frameLeft = 0
    /\ \E i \in DOMAIN saveOutcome :
         /\ saveOutcome[i] = "pending"
         /\ saveOutcome' = [saveOutcome EXCEPT ![i] = "rejected"]
    /\ UNCHANGED <<variant, sdk, gameState, rafPending, frameLeft,
                   frameUpdates, tick, threw, saveLog, savePointsLog,
                   addPointsCalls, addPointsInvoked, renders, rendered,
                   flapsUsed, startsUsed>>

Next ==
    \/ StartGame
    \/ Flap
    \/ AnimationFrame
    \/ SdkInitResolved
    \/ SdkInitRejected
    \/ SavePointsResolved
    \/ SavePointsRejected

Spec == Init /\ [][Next]_vars

-----------------------------------------------------------------------------
(* Claims *)

\* C1: once the game has ended (gameRunning is false after a game was
\* started), no frame callback is registered with the host.
NoCallbackAfterGameOver ==
    (startsUsed > 0 /\ ~gameState.gameRunning) => rafPending = 0

\* C2: at most one gameLoop callback is pending at any time and a host frame
\* executes update() at most once.
OneStepPerFrame ==
    rafPending <= 1 /\ frameUpdates <= 1

\* C3: no handler ends with an exception thrown out of update(), whatever
\* the state of the rewards collaborator, and a running game always has its
\* next frame callback registered.
NoExceptionOutOfUpdate ==
    /\ ~threw
    /\ gameState.gameRunning => rafPending >= 1

\* C4: a step that takes gameRunning from true to false calls
\* ogpManager.saveScore exactly once, with the final score, when the score is
\* positive, and not at all when it is 0; no other step calls saveScore.
SaveScoreOnceAtGameEnd ==
    [][ /\ (gameState.gameRunning /\ ~gameState'.gameRunning)
             => saveLog' = IF gameState'.score > 0
                           THEN Append(saveLog, gameState'.score)
                           ELSE saveLog
        /\ (saveLog' # saveLog)
             => (gameState.gameRunning /\ ~gameState'.gameRunning) ]_vars

\* C4 witness: a game ended with a positive score, which was saved
SavedPositiveScore ==
    /\ ~gameState.gameRunning
    /\ gameState.score > 0
    /\ saveLog = <<gameState.score>>

\* C5: between handlers, a running game has the bird inside the canvas:
\* 0 <= birdY <= canvasHeight - birdHeight.
BirdInsideCanvasWhileRunning ==
    gameState.gameRunning =>
        /\ 0 <= gameState.birdY
        /\ gameState.birdY <= CONFIG.canvasHeight - CONFIG.birdHeight

\* C6: birdVelocity never exceeds maxVelocity and never goes below
\* -flapStrength.
VelocityBounded ==
    /\ gameState.birdVelocity <= CONFIG.maxVelocity
    /\ gameState.birdVelocity >= 0 - CONFIG.flapStrength

\* C6 witness: the clamp has acted: more ticks of free fall than gravity
\* needs to reach maxVelocity
VelocityClamped ==
    /\ gameState.gameRunning
    /\ flapsUsed = 0
    /\ tick * CONFIG.gravity > CONFIG.maxVelocity
    /\ gameState.birdVelocity = CONFIG.maxVelocity

\* C7: one tick yields birdVelocity' = min(birdVelocity + gravity,
\* maxVelocity) and birdY' = birdY + birdVelocity'; the tick that startGame
\* runs from birdY = 300, birdVelocity = 0 gives birdVelocity = 0.05 and
\* birdY = 300.05.
TickIntegratesUpdatedVelocity ==
    [][ /\ (tick' = tick + 1 /\ startsUsed' = startsUsed)
             => /\ gameState'.birdVelocity =
                       IF gameState.birdVelocity + 1 < 5 * Unit
                       THEN gameState.birdVelocity + 1 ELSE 5 * Unit
                /\ gameState'.birdY = gameState.birdY + gameState'.birdVelocity
        /\ (startsUsed' = startsUsed + 1)
             => /\ gameState'.birdVelocity = 1
                /\ gameState'.birdY = 300 * Unit + 1 ]_vars

\* C7 witness: a frame tick of a falling bird has been taken after the tick
\* of startGame: 300 -> 300.05 -> 300.15
SecondTickTaken ==
    /\ tick = 2
    /\ gameState.birdVelocity = 2
    /\ gameState.birdY = 300 * Unit + 3

\* C8: a flap delivered while the game runs sets birdVelocity to exactly
\* -flapStrength whatever it was before (so a second flap leaves what the
\* first left) and changes none of birdY, obstacleX, gap top, score, running.
FlapSetsVelocity ==
    [][ (flapsUsed' = flapsUsed + 1 /\ gameState.gameRunning)
          => /\ gameState'.birdVelocity = 0 - CONFIG.flapStrength
             /\ gameState'.birdY = gameState.birdY
             /\ gameState'.obstacleX = gameState.obstacleX
             /\ gameState'.obstacleHeight = gameState.obstacleHeight
             /\ gameState'.score = gameState.score
             /\ gameState'.gameRunning ]_vars

\* C8 witness: after two flaps in all, the last one delivered between ticks
\* 100 and 101 of the first run to a bird falling at the maxVelocity cap
\* (birdY is that of an unbroken fall, so no flap came earlier in the run)
FlappedTwiceAtCap ==
    /\ startsUsed = 1
    /\ saveLog = <<>>
    /\ gameState.gameRunning
    /\ flapsUsed = 2
    /\ tick = 100
    /\ gameState.birdY = 300 * Unit + 5050
    /\ gameState.birdVelocity = 0 - CONFIG.flapStrength

\* C9: a flap delivered while the game does not run changes no field of the
\* game state and registers no frame callback.
FlapWhileStoppedIsNoOp ==
    [][ (flapsUsed' = flapsUsed + 1 /\ ~gameState.gameRunning)
          => /\ gameState' = gameState
             /\ rafPending' = rafPending ]_vars

\* C9 witness: flaps were delivered before the first start and the game was
\* not started by them
FlappedBeforeStart ==
    /\ startsUsed = 0
    /\ flapsUsed = MaxFlaps
    /\ ~gameState.gameRunning

\* C10: a tick whose post-move birdY is outside the canvas (birdY < 0 or
\* birdY + birdHeight > canvasHeight) sets gameRunning to false in that tick,
\* wherever the obstacle is.
BoundaryCollisionEndsGame ==
    [][ ( /\ tick' = tick + 1
          /\ startsUsed' = startsUsed
          /\ \/ gameState'.birdY < 0
             \/ gameState'.birdY + CONFIG.birdHeight > CONFIG.canvasHeight )
          => ~gameState'.gameRunning ]_vars

\* a frame tick: one update() executed by a frame callback
FrameTick == tick' = tick + 1 /\ startsUsed' = startsUsed

\* the terminal condition of the specification on a game state g: ground or
\* ceiling, or horizontal overlap with the column while outside the gap
Collides(g) ==
    \/ g.birdY < 0
    \/ g.birdY + 30 * Unit > 600 * Unit
    \/ /\ 50 * Unit + 30 * Unit > g.obstacleX
       /\ 50 * Unit < g.obstacleX + 50 * Unit
       /\ \/ g.birdY < g.obstacleHeight
          \/ g.birdY + 30 * Unit > g.obstacleHeight + 150 * Unit

\* C11: within a run score changes only by +1, only in a tick whose advanced
\* obstacleX is < -obstacleWidth, and that tick replaces the obstacle
\* (obstacleX = canvasWidth), so no obstacle instance is counted twice.
ScoreOncePerPassThrough ==
    [][ (startsUsed' = startsUsed /\ gameState'.score # gameState.score)
          => /\ gameState'.score = gameState.score + 1
             /\ tick' = tick + 1
             /\ gameState.obstacleX - 2 * Unit < 0 - 50 * Unit
             /\ gameState'.obstacleX = 400 * Unit ]_vars

\* C11 witness: the first obstacle has been passed and replaced
FirstObstaclePassed ==
    /\ tick = 226
    /\ gameState.score = 1
    /\ gameState.obstacleX = CONFIG.canvasWidth

\* C12: the gap top always satisfies 50 <= gapTop <= canvasHeight - gapSize
\* - 50.
GapTopInRange ==
    /\ 50 * Unit <= gameState.obstacleHeight
    /\ gameState.obstacleHeight <= 600 * Unit - 150 * Unit - 50 * Unit

\* C12 witness: resetObstacle has drawn the largest sample of Math.random()
\* for a started game
LargestGapTopDrawn ==
    /\ startsUsed > 0
    /\ gameState.obstacleHeight = (999 * 350 * Unit) \div 1000 + 50 * Unit

\* C13: with no flap input a run ends within 200 ticks, and it ends by the
\* ground condition, not by the obstacle.
FreeFallEndsOnGround ==
    flapsUsed = 0 =>
        /\ gameState.gameRunning => tick < 200
        /\ (startsUsed > 0 /\ ~gameState.gameRunning)
             => /\ tick <= 200
                /\ gameState.birdY + CONFIG.birdHeight > CONFIG.canvasHeight
                /\ ~ ( /\ CONFIG.birdX + CONFIG.birdWidth > gameState.obstacleX
                       /\ CONFIG.birdX
                            < gameState.obstacleX + CONFIG.obstacleWidth )

\* C13 witness: a run without flaps has ended
FreeFallEnded ==
    /\ flapsUsed = 0
    /\ startsUsed > 0
    /\ ~gameState.gameRunning
    /\ tick > 100

\* C14: the tick that follows a flap (birdVelocity is -flapStrength only
\* right after a flap) moves the bird by the post-flap velocity, birdY' =
\* birdY + min(-flapStrength + gravity, maxVelocity), and the collision check
\* of that tick is decided on that birdY'.
TickAfterFlapUsesNewVelocity ==
    [][ (FrameTick /\ gameState.birdVelocity = 0 - 3 * Unit)
          => /\ gameState'.birdY = gameState.birdY + (1 - 3 * Unit)
             /\ ~gameState'.gameRunning => Collides(gameState')
             /\ (gameState'.gameRunning /\ ~threw')
                  => ~Collides(gameState') ]_vars

\* C14 witness: the tick after a flap at tick 100 has been taken
TickAfterFlapTaken ==
    /\ tick = 101
    /\ gameState.gameRunning
    /\ gameState.birdVelocity = 1 - CONFIG.flapStrength

\* C16: on every tick obstacleX decreases by exactly obstacleSpeed, except
\* on the recycle tick (advanced obstacleX < -obstacleWidth), where it
\* becomes canvasWidth; obstacleX stays in [-obstacleWidth, canvasWidth].
ObstacleAdvancesUntilRecycle ==
    [][ /\ FrameTick
          => gameState'.obstacleX =
                 IF gameState.obstacleX - 2 * Unit < 0 - 50 * Unit
                 THEN 400 * Unit
                 ELSE gameState.obstacleX - 2 * Unit
        /\ 0 - 50 * Unit <= gameState'.obstacleX
        /\ gameState'.obstacleX <= 400 * Unit ]_vars

\* C16 witness: the column has reached its leftmost position, exactly
\* -obstacleWidth, without being recycled
ObstacleAtLeftEdge ==
    /\ gameState.gameRunning
    /\ gameState.obstacleX = 0 - CONFIG.obstacleWidth

\* C19: a tick of a running game sets gameRunning to false if and only if
\* the state after the move, the obstacle advance and any recycle satisfies
\* the collision condition.
TickEndsGameIffCollision ==
    [][ (FrameTick /\ gameState.gameRunning)
          => (~gameState'.gameRunning <=> Collides(gameState')) ]_vars

\* C20: startGame resets the state from wherever it is called, draws a gap
\* top and runs exactly one simulation step; only startGame sets gameRunning
\* to true; the step that ends a game does not reset the state.
StartGameResetsAndSteps ==
    [][ /\ (startsUsed' = startsUsed + 1)
             => /\ gameState'.birdVelocity = 1
                /\ gameState'.birdY = 300 * Unit + 1
                /\ gameState'.obstacleX = 400 * Unit - 2 * Unit
                /\ gameState'.score = 0
                /\ gameState'.gameRunning
                /\ tick' = 1
                /\ \E r \in RandomSamples :
                      gameState'.obstacleHeight
                          = (r * 350 * Unit) \div 1000 + 50 * Unit
        /\ (~gameState.gameRunning /\ gameState'.gameRunning)
             => startsUsed' = startsUsed + 1
        /\ (gameState.gameRunning /\ ~gameState'.gameRunning)
             => /\ gameState'.birdY
                      = gameState.birdY + gameState'.birdVelocity
                /\ gameState'.score >= gameState.score
                /\ tick' = tick + 1 ]_vars

\* C20 witness: startGame was invoked after a game over that saved a score
RestartedAfterGameOver ==
    /\ startsUsed = 2
    /\ tick = 1
    /\ gameState.gameRunning
    /\ saveLog # <<>>

\* C15: the rewards save is fire-and-forget: the step that issues the save
\* is the step that ends the game; the settling of its promise, whichever
\* way, changes nothing of the simulation and issues no further save; a
\* startGame starts a new run whatever the state of the promise.
SaveIsFireAndForget ==
    [][ /\ (Len(savePointsLog') > Len(savePointsLog))
             => /\ gameState.gameRunning /\ ~gameState'.gameRunning
                /\ savePointsLog'
                     = Append(savePointsLog, gameState'.score)
        /\ (saveOutcome' # saveOutcome /\ Len(saveOutcome') = Len(saveOutcome))
             => /\ gameState'.birdY = gameState.birdY
                /\ gameState'.birdVelocity = gameState.birdVelocity
                /\ gameState'.obstacleX = gameState.obstacleX
                /\ gameState'.obstacleHeight = gameState.obstacleHeight
                /\ gameState'.score = gameState.score
                /\ gameState'.gameRunning = gameState.gameRunning
                /\ rafPending' = rafPending
                /\ tick' = tick
                /\ saveLog' = saveLog
                /\ savePointsLog' = savePointsLog
        /\ Len(saveOutcome') = Len(savePointsLog')
        /\ (startsUsed' = startsUsed + 1)
             => gameState'.gameRunning /\ tick' = 1 ]_vars

\* C15 witness: a new run was started while the save of the previous run
\* had not settled, and that save was rejected later, during the new run
RejectedDuringNextRun ==
    /\ startsUsed = 2
    /\ gameState.gameRunning
    /\ tick = 2
    /\ saveOutcome = << "rejected" >>

\* C17: in the rich variant every step signals addPoints(1) exactly as many
\* times as it increments score (once, in the pass-through tick), and
\* startGame, which resets score, signals nothing; the simple variant never
\* signals.
AddPointsPerScoreIncrement ==
    [][ addPointsInvoked' - addPointsInvoked =
            IF variant = "rich" /\ startsUsed' = startsUsed
            THEN gameState'.score - gameState.score
            ELSE 0 ]_vars

\* C17 witness: a run of the rich variant ended with score 1 after one
\* addPoints(1)
EndedWithOnePointSignalled ==
    /\ variant = "rich"
    /\ startsUsed = 1
    /\ ~gameState.gameRunning
    /\ gameState.score = 1
    /\ addPointsInvoked = 1

\* C18: every update() is followed, in the same gameLoop invocation, by
\* exactly one render() of the resulting state, and render() runs at no
\* other time.
RenderedOncePerTick ==
    [][ IF tick' # tick \/ startsUsed' # startsUsed
        THEN /\ renders' = tick'
             /\ rendered' = << gameState'.birdY, gameState'.birdRotation,
                               gameState'.animationFrame, gameState'.obstacleX,
                               gameState'.obstacleHeight, gameState'.score >>
        ELSE /\ renders' = renders
             /\ rendered' = rendered ]_vars

\* C21: while gameRunning is false no frame callback, flap or rewards event
\* changes birdY, birdVelocity, obstacleX, gap top or score; a gameLoop
\* callback that fires then runs neither update() nor render() and registers
\* no callback; only startGame leaves this state.
FrozenAfterGameOver ==
    [][ (~gameState.gameRunning /\ startsUsed' = startsUsed)
          => /\ gameState'.birdY = gameState.birdY
             /\ gameState'.birdVelocity = gameState.birdVelocity
             /\ gameState'.obstacleX = gameState.obstacleX
             /\ gameState'.obstacleHeight = gameState.obstacleHeight
             /\ gameState'.score = gameState.score
             /\ ~gameState'.gameRunning
             /\ tick' = tick
             /\ renders' = renders
             /\ rafPending' <= rafPending ]_vars

\* C21 witness: after a game over the callback that was still registered
\* has fired and left nothing registered
LeftoverCallbackFired ==
    /\ startsUsed > 0
    /\ ~gameState.gameRunning
    /\ rafPending = 0
    /\ gameState.animationFrameId = StaleHandle

\* C22: ogp.savePoints and ogp.ui.addPoints are invoked only when the init
\* promise of the SDK has resolved (isInitialized is true).
PointsOnlyWhenInitialized ==
    [][ (addPointsCalls' # addPointsCalls \/ savePointsLog' # savePointsLog)
          => sdk = "ready" ]_vars

====
